---- MODULE Spec2Model ----
(***************************************************************************)
(* Model of ops/docker/scripts/dashboard-sync.py: a one-shot script that   *)
(* checks a credential and a destination directory, then downloads each    *)
(* dashboard of a fixed list, rewrites three literal tokens and writes the *)
(* result to a file.  Texts are sequences of one-character strings, so     *)
(* that str.replace is modelled by what it does to the characters.         *)
(***************************************************************************)
EXTENDS Integers, Sequences, FiniteSets, TLC

\* ------------------------------------------------------------------ bounds
\* number of times the script is run against the same destination directory
MaxRuns == 2
\* number of pieces a downloaded text is built from (substitution check)
MaxPieces == 3

\* ------------------------------------------------------- literals (chars)
DS_INFLUXDB == <<"$","{","D","S","_","I","N","F","L","U","X","D","B","}">>
GethDashboard == <<"G","e","t","h"," ","D","a","s","h","b","o","a","r","d">>
QC1Arp5Wk == <<"Q","C","1","A","r","p","5","W","k">>

\* the name that import statements make available (lines 2-3)
Imports == {"os", "urllib.request"}

\* lines 5-18
dashboard_list ==
  << [ name |-> <<"G","e","t","h"," ","D","a","s","h","b","o","a","r","d"," ",
                  "E","t","h","e","r","e","u","m">>,
       filename |-> "single_geth_eth.json",
       url |-> "https://grafana.com/api/dashboards/13877/revisions/1/download",
       replacement |-> <<"I","n","f","l","u","x","D","B","_","e","t","h">> ],
     [ name |-> <<"G","e","t","h"," ","D","a","s","h","b","o","a","r","d"," ",
                  "O","p","t","i","m","i","s","m">>,
       filename |-> "single_geth_opt.json",
       url |-> "https://grafana.com/api/dashboards/13877/revisions/1/download",
       replacement |-> <<"I","n","f","l","u","x","D","B">> ] >>

\* line 19
dashboard_path == "/grafana-dashboards"

Indices == 1..Len(dashboard_list)

\* ------------------------------------------------------------ environment
\* Python's None and str values of os.environ.get, kept apart by a tag
None == [isNone |-> TRUE, val |-> ""]
Str(v) == [isNone |-> FALSE, val |-> v]

\* os.environ: a mapping from the names that are set to their values
Environs ==
  { [n \in {} |-> ""] } \cup
  { [n \in {"GF_SECURITY_ADMIN_PASSWORD"} |-> v] : v \in {"", "hunter2", "s3cret"} }

\* os.environ.get(key): the value, or None when the key is not set (line 21)
EnvironGet(env, key) == IF key \in DOMAIN env THEN Str(env[key]) ELSE None

\* what stat/access report about dashboard_path
DirStates ==
  { [exists |-> FALSE, isdir |-> FALSE, writable |-> FALSE],   \* missing
    [exists |-> TRUE,  isdir |-> FALSE, writable |-> TRUE],    \* a regular file
    [exists |-> TRUE,  isdir |-> TRUE,  writable |-> FALSE],   \* read-only directory
    [exists |-> TRUE,  isdir |-> TRUE,  writable |-> TRUE] }   \* usable

\* line 22: the condition of the credential check
CredMissingNever(v) == FALSE
CredMissing(v) == v = None

\* line 26: the condition of the directory check
DirUnusableNoAccess(st) == (~ st.exists) \/ (~ st.isdir)
DirUnusable(st) == (~ st.exists) \/ (~ st.isdir) \/ (~ st.writable)

\* lines 24, 28: sys.exit(1).  The name sys is looked up first; when it is not
\* bound the statement raises NameError and the interpreter ends with status 1
\* after printing a traceback.
SysExit(code) ==
  IF "sys" \in Imports THEN [kind |-> "SystemExit", code |-> code]
                       ELSE [kind |-> "NameError", code |-> 1]

\* ------------------------------------------------------------ str.replace
RECURSIVE ReplaceFirst(_, _, _)
ReplaceFirst(s, old, new) ==
  IF Len(s) < Len(old) THEN s
  ELSE IF SubSeq(s, 1, Len(old)) = old
       THEN new \o SubSeq(s, Len(old) + 1, Len(s))
       ELSE <<Head(s)>> \o ReplaceFirst(Tail(s), old, new)

\* str.replace(old, new) for a non-empty old: left to right, every
\* non-overlapping occurrence (lines 34-36)
RECURSIVE Replace(_, _, _)
Replace(s, old, new) ==
  IF Len(s) < Len(old) THEN s
  ELSE IF SubSeq(s, 1, Len(old)) = old
       THEN new \o Replace(SubSeq(s, Len(old) + 1, Len(s)), old, new)
       ELSE <<Head(s)>> \o Replace(Tail(s), old, new)

\* the code points of the characters the texts are written in
AsciiChr ==
  (32 :> " ") @@ (36 :> "$") @@ (49 :> "1") @@ (53 :> "5") @@ (65 :> "A") @@
  (66 :> "B") @@ (67 :> "C") @@ (68 :> "D") @@ (69 :> "E") @@ (70 :> "F") @@
  (71 :> "G") @@ (73 :> "I") @@ (76 :> "L") @@ (78 :> "N") @@ (79 :> "O") @@
  (81 :> "Q") @@ (83 :> "S") @@ (85 :> "U") @@ (87 :> "W") @@ (88 :> "X") @@
  (95 :> "_") @@ (97 :> "a") @@ (98 :> "b") @@ (100 :> "d") @@ (101 :> "e") @@
  (102 :> "f") @@ (104 :> "h") @@ (105 :> "i") @@ (107 :> "k") @@ (108 :> "l") @@
  (109 :> "m") @@ (110 :> "n") @@ (111 :> "o") @@ (112 :> "p") @@ (114 :> "r") @@
  (115 :> "s") @@ (116 :> "t") @@ (117 :> "u") @@ (120 :> "x") @@ (123 :> "{") @@
  (125 :> "}")

\* what the server does to produce the bytes of a text: its UTF-8 encoding
Ord(c) == CHOOSE b \in DOMAIN AsciiChr : AsciiChr[b] = c
Encode(text) == [k \in 1..Len(text) |-> Ord(text[k])]

\* bytes.decode('utf-8') (line 33): a byte below 128 is the character with
\* that code point; the byte 255 occurs in no UTF-8 encoding, and the call
\* raises UnicodeDecodeError
DecodeOk(bytes) == \A k \in 1..Len(bytes) : bytes[k] < 128
Decode(bytes) == [k \in 1..Len(bytes) |-> AsciiChr[bytes[k]]]

\* the three right-hand sides of lines 34, 35 and 36
Line34(decoded, d) == Replace(decoded, DS_INFLUXDB, d.replacement)
Line35Other(dat, d) == Replace(dat, GethDashboard, dashboard_list[1].name)
Line35(dat, d) == Replace(dat, GethDashboard, d.name)
Line36(dat, d) == Replace(dat, QC1Arp5Wk, QC1Arp5Wk \o d.replacement)

\* line 37: open(path, 'w') creates the file or truncates it
OpenAppend(fs, name) ==
  [n \in DOMAIN fs \cup {name} |-> IF n = name /\ n \notin DOMAIN fs THEN <<>> ELSE fs[n]]
OpenW(fs, name) ==
  [n \in DOMAIN fs \cup {name} |-> IF n = name THEN <<>> ELSE fs[n]]

\* line 37: os.path.join(dashboard_path, filename)
PathJoin(dir, name) == <<dir, name>>

\* line 30: the for statement visits the list from its first element on
FirstIndex == 1
NextIndex(k) == k + 1
LoopDoneEarly(k) == k >= Len(dashboard_list)
LoopDone(k) == k > Len(dashboard_list)
DashboardAtRev(k) == dashboard_list[Len(dashboard_list) + 1 - k]
DashboardAt(k) == dashboard_list[k]

\* lines 23, 27: what print writes.  str.format leaves '%s' as it is, the
\* string has no replacement field
MsgCred == "GF_SECURITY_ADMIN_PASSWORD env value is missing, exiting."
MsgDir == "Dashboard path %s is not writable, exiting"

\* ---------------------------------------------------- the world of a run
\* pieces the downloaded texts are built from: the three tokens, parts of
\* them, and a character of no token
Pieces ==
  { DS_INFLUXDB, GethDashboard, QC1Arp5Wk,
    <<"G","e","t","h"," ">>, <<"D","a","s","h","b","o","a","r","d">>,
    <<"Q","C","1","A","r","p","5">>, <<"W","k">>, <<"x">> }

RECURSIVE TextsOf(_)
TextsOf(n) ==
  IF n = 0 THEN { <<>> }
  ELSE { p \o t : p \in Pieces, t \in TextsOf(n - 1) }

BuiltTexts == UNION { TextsOf(n) : n \in 0..MaxPieces }

\* two texts a server may answer with, in the runs of the whole script
TextA == DS_INFLUXDB \o <<" ">> \o GethDashboard \o <<" ">> \o QC1Arp5Wk
TextB == QC1Arp5Wk \o DS_INFLUXDB \o <<"x">> \o GethDashboard \o DS_INFLUXDB

\* what urlopen meets: an answer with a body, or an error (URLError and its
\* subclass HTTPError)
Responses ==
  { [status |-> "ok", body |-> Encode(TextA)],
    [status |-> "ok", body |-> Encode(TextB)],
    [status |-> "ok", body |-> Encode(<<"x">>) \o <<255>>],
    [status |-> "URLError", body |-> <<>>] }

\* what the file system does to the file of a descriptor
DiskFaults == { "ok", "open", "write" }

ResponseFails(r) == r.status # "ok" \/ ~ DecodeOk(r.body)

NumFaults(srv, dsk) ==
  Cardinality({ k \in Indices : ResponseFails(srv[k]) })
  + Cardinality({ k \in Indices : dsk[k] # "ok" })

\* a run stops at its first failure, so one failure per world is enough
Worlds ==
  { w \in [server : [Indices -> Responses], disk : [Indices -> DiskFaults]] :
      NumFaults(w.server, w.disk) <= 1 }

OldContent == <<"o","l","d">>
FileNames == { PathJoin(dashboard_path, dashboard_list[k].filename) : k \in Indices }
InitialFiles ==
  { [n \in S |-> OldContent] : S \in SUBSET FileNames }

NoRun ==
  [ran |-> FALSE, secret |-> None, requests |-> <<>>, written |-> <<>>,
   exit |-> [kind |-> "running", code |-> -1], files |-> <<>>]

\* ------------------------------------------------------------------ state
VARIABLES
  environ,       \* os.environ of the current run
  dirstat,       \* what the file system reports about dashboard_path
  server,        \* what the server answers to the request of each descriptor
  disk,          \* what the file system does to the file of each descriptor
  files,         \* the files under dashboard_path: name -> content
  run,           \* number of the current run
  prev,          \* what the run before the current one did
  pc,            \* the line the interpreter is at
  i,             \* position of the for statement in dashboard_list
  GF_SECURITY_ADMIN_PASSWORD,
  f,             \* TRUE while the response of urlopen is open
  response, decoded_html, data,
  d_file,        \* the open file object of line 37
  stdout,        \* what print has written
  exit,          \* how the process ended, and its status
  requests,      \* the requests issued by the current run
  events         \* the lines the current run has executed, per file name

vars == << environ, dirstat, server, disk, files, run, prev, pc, i,
           GF_SECURITY_ADMIN_PASSWORD, f, response, decoded_html, data,
           d_file, stdout, exit, requests, events >>

world == << dirstat, server, disk >>
locals == << response, decoded_html, data >>

\* line 31: urlopen(url) with a str argument issues a plain GET of that url
RequestForLeak(url) ==
  [method |-> "GET", url |-> url, auth |-> GF_SECURITY_ADMIN_PASSWORD.val]
RequestFor(url) == [method |-> "GET", url |-> url, auth |-> ""]

NoFile == [name |-> <<>>, buf |-> <<>>, open |-> FALSE]

\* the state of the interpreter when the script starts
Fresh ==
  /\ pc = "l21"
  /\ i = FirstIndex
  /\ GF_SECURITY_ADMIN_PASSWORD = None
  /\ f = FALSE
  /\ response = <<>> /\ decoded_html = <<>> /\ data = <<>>
  /\ d_file = NoFile
  /\ stdout = <<>>
  /\ exit = [kind |-> "running", code |-> -1]
  /\ requests = <<>>
  /\ events = <<>>

Init ==
  /\ environ \in Environs
  /\ dirstat \in DirStates
  /\ \E w \in Worlds : server = w.server /\ disk = w.disk
  /\ files \in InitialFiles
  /\ run = 1
  /\ prev = NoRun
  /\ Fresh

dashboard == DashboardAt(i)
Log(line) == events' = Append(events, <<line, dashboard.filename>>)

\* an exception nothing catches: the with statement closes the response, the
\* interpreter prints a traceback and ends with status 1
RaiseSwallow(kind) ==
  /\ exit' = [kind |-> "end", code |-> 0]
  /\ pc' = "exited"
  /\ f' = FALSE
Raise(kind) ==
  /\ exit' = [kind |-> kind, code |-> 1]
  /\ pc' = "exited"
  /\ f' = FALSE

\* line 21
L21 ==
  /\ pc = "l21"
  /\ GF_SECURITY_ADMIN_PASSWORD' = EnvironGet(environ, "GF_SECURITY_ADMIN_PASSWORD")
  /\ pc' = "l22"
  /\ UNCHANGED << environ, world, files, run, prev, i, f, locals, d_file,
                  stdout, exit, requests, events >>

\* lines 22-24
L22 ==
  /\ pc = "l22"
  /\ IF CredMissing(GF_SECURITY_ADMIN_PASSWORD)
     THEN /\ stdout' = Append(stdout, MsgCred)
          /\ exit' = SysExit(1)
          /\ pc' = "exited"
          /\ UNCHANGED events
     ELSE /\ pc' = "l26"
          /\ events' = Append(events, <<"l22", "passed">>)
          /\ UNCHANGED << stdout, exit >>
  /\ UNCHANGED << environ, world, files, run, prev, i, GF_SECURITY_ADMIN_PASSWORD,
                  f, locals, d_file, requests >>

\* lines 26-28
L26 ==
  /\ pc = "l26"
  /\ IF DirUnusable(dirstat)
     THEN /\ stdout' = Append(stdout, MsgDir)
          /\ exit' = SysExit(1)
          /\ pc' = "exited"
          /\ UNCHANGED events
     ELSE /\ pc' = "l30"
          /\ events' = Append(events, <<"l26", "passed">>)
          /\ UNCHANGED << stdout, exit >>
  /\ UNCHANGED << environ, world, files, run, prev, i, GF_SECURITY_ADMIN_PASSWORD,
                  f, locals, d_file, requests >>

\* line 30: the next element of the list, or the end of the script
L30 ==
  /\ pc = "l30"
  /\ IF LoopDone(i)
     THEN /\ exit' = [kind |-> "end", code |-> 0]
          /\ pc' = "exited"
     ELSE /\ pc' = "l31"
          /\ UNCHANGED exit
  /\ UNCHANGED << environ, world, files, run, prev, i, GF_SECURITY_ADMIN_PASSWORD,
                  f, locals, d_file, stdout, requests, events >>

\* line 31: urlopen sends the request and waits for the answer
L31 ==
  /\ pc = "l31"
  /\ requests' = Append(requests, RequestFor(dashboard.url))
  /\ Log("l31")
  /\ IF server[i].status # "ok"
     THEN Raise(server[i].status)
     ELSE /\ f' = TRUE
          /\ pc' = "l32"
          /\ UNCHANGED exit
  /\ UNCHANGED << environ, world, files, run, prev, i, GF_SECURITY_ADMIN_PASSWORD,
                  locals, d_file, stdout >>

\* line 32
L32 ==
  /\ pc = "l32"
  /\ response' = server[i].body
  /\ Log("l32")
  /\ pc' = "l33"
  /\ UNCHANGED << environ, world, files, run, prev, i, GF_SECURITY_ADMIN_PASSWORD,
                  f, decoded_html, data, d_file, stdout, exit, requests >>

\* line 33
L33 ==
  /\ pc = "l33"
  /\ Log("l33")
  /\ IF DecodeOk(response)
     THEN /\ decoded_html' = Decode(response)
          /\ pc' = "l34"
          /\ UNCHANGED << f, exit >>
     ELSE /\ Raise("UnicodeDecodeError")
          /\ UNCHANGED decoded_html
  /\ UNCHANGED << environ, world, files, run, prev, i, GF_SECURITY_ADMIN_PASSWORD,
                  response, data, d_file, stdout, requests >>

\* line 34
L34 ==
  /\ pc = "l34"
  /\ data' = Line34(decoded_html, dashboard)
  /\ Log("l34")
  /\ pc' = "l35"
  /\ UNCHANGED << environ, world, files, run, prev, i, GF_SECURITY_ADMIN_PASSWORD,
                  f, response, decoded_html, d_file, stdout, exit, requests >>

\* line 35
L35 ==
  /\ pc = "l35"
  /\ data' = Line35(data, dashboard)
  /\ Log("l35")
  /\ pc' = "l36"
  /\ UNCHANGED << environ, world, files, run, prev, i, GF_SECURITY_ADMIN_PASSWORD,
                  f, response, decoded_html, d_file, stdout, exit, requests >>

\* line 36
L36 ==
  /\ pc = "l36"
  /\ data' = Line36(data, dashboard)
  /\ Log("l36")
  /\ pc' = "l37"
  /\ UNCHANGED << environ, world, files, run, prev, i, GF_SECURITY_ADMIN_PASSWORD,
                  f, response, decoded_html, d_file, stdout, exit, requests >>

\* line 37: open creates or truncates the file, or raises OSError
L37 ==
  /\ pc = "l37"
  /\ Log("l37")
  /\ IF disk[i] = "open"
     THEN /\ Raise("OSError")
          /\ UNCHANGED << files, d_file >>
     ELSE /\ files' = OpenW(files, PathJoin(dashboard_path, dashboard.filename))
          /\ d_file' = [name |-> PathJoin(dashboard_path, dashboard.filename),
                        buf |-> <<>>, open |-> TRUE]
          /\ pc' = "l38"
          /\ UNCHANGED << f, exit >>
  /\ UNCHANGED << environ, world, run, prev, i, GF_SECURITY_ADMIN_PASSWORD,
                  locals, stdout, requests >>

\* line 38: write puts the text into the buffer of the file object, or
\* raises OSError and leaves the truncated file behind
L38 ==
  /\ pc = "l38"
  /\ Log("l38")
  /\ IF disk[i] = "write"
     THEN /\ Raise("OSError")
          /\ UNCHANGED d_file
     ELSE /\ d_file' = [d_file EXCEPT !.buf = @ \o data]
          /\ pc' = "l39"
          /\ UNCHANGED << f, exit >>
  /\ UNCHANGED << environ, world, files, run, prev, i, GF_SECURITY_ADMIN_PASSWORD,
                  locals, stdout, requests >>

\* line 39: close writes the buffer to the file; the with statement then
\* closes the response and the for statement moves on
L39 ==
  /\ pc = "l39"
  /\ Log("l39")
  /\ files' = [files EXCEPT ![d_file.name] = @ \o d_file.buf]
  /\ d_file' = [d_file EXCEPT !.buf = <<>>, !.open = FALSE]
  /\ f' = FALSE
  /\ i' = NextIndex(i)
  /\ pc' = "l30"
  /\ UNCHANGED << environ, world, run, prev, GF_SECURITY_ADMIN_PASSWORD,
                  locals, stdout, exit, requests >>

\* the files the current run has written and closed, with their content
ClosedNames == { PathJoin(dashboard_path, e[2]) : e \in { x \in {events[k] : k \in 1..Len(events)} : x[1] = "l39" } }
Written == [n \in ClosedNames |-> files[n]]

\* the script is started again on the same directory, against the same
\* server, with an environment of the operator's choice
Restart ==
  /\ pc = "exited"
  /\ run < MaxRuns
  /\ run' = run + 1
  /\ prev' = [ran |-> TRUE, secret |-> GF_SECURITY_ADMIN_PASSWORD,
              requests |-> requests, written |-> Written, exit |-> exit,
              files |-> files]
  /\ environ' \in Environs
  /\ pc' = "l21"
  /\ i' = FirstIndex
  /\ GF_SECURITY_ADMIN_PASSWORD' = None
  /\ f' = FALSE
  /\ response' = <<>> /\ decoded_html' = <<>> /\ data' = <<>>
  /\ d_file' = NoFile
  /\ stdout' = <<>>
  /\ exit' = [kind |-> "running", code |-> -1]
  /\ requests' = <<>>
  /\ events' = <<>>
  /\ UNCHANGED << world, files >>

Step ==
  \/ L21 \/ L22 \/ L26 \/ L30 \/ L31 \/ L32 \/ L33
  \/ L34 \/ L35 \/ L36 \/ L37 \/ L38 \/ L39

Next == Step \/ Restart

Spec == Init /\ [][Next]_vars

\* the interpreter keeps executing the script as long as it can
FairSpec == Spec /\ WF_vars(Step)

\* the substitution on every built text: a usable run whose server answers
\* both requests with the same text, as the two urls are the same
InitSub ==
  /\ environ \in { e \in Environs : DOMAIN e # {} /\ e["GF_SECURITY_ADMIN_PASSWORD"] = "hunter2" }
  /\ dirstat \in { st \in DirStates : ~ DirUnusable(st) }
  /\ \E t \in BuiltTexts : server = [k \in Indices |-> [status |-> "ok", body |-> Encode(t)]]
  /\ disk = [k \in Indices |-> "ok"]
  /\ files = [n \in FileNames |-> OldContent]
  /\ run = 1
  /\ prev = NoRun
  /\ Fresh

SpecSub == InitSub /\ [][Step]_vars

\* ------------------------------------------------- vocabulary of the claims
Key == "GF_SECURITY_ADMIN_PASSWORD"
Unset == Key \notin DOMAIN environ
Present == Key \in DOMAIN environ
DirOk == dirstat.exists /\ dirstat.isdir /\ dirstat.writable
Exited == pc = "exited"

EventSet == { events[k] : k \in 1..Len(events) }
FileLines == { "l37", "l38", "l39" }
NoFileTouched == \A e \in EventSet : e[1] \notin FileLines
NoIO == requests = <<>> /\ NoFileTouched
Count(line, name) == Cardinality({ k \in 1..Len(events) : events[k] = <<line, name>> })

NameOf(k) == PathJoin(dashboard_path, dashboard_list[k].filename)
TextOf(k) == Decode(server[k].body)

IsPrefix(a, b) == Len(a) <= Len(b) /\ a = SubSeq(b, 1, Len(a))
StartsWith(s, p) == Len(s) >= Len(p) /\ SubSeq(s, 1, Len(p)) = p
Drop(s, n) == SubSeq(s, n + 1, Len(s))
Contains(s, p) == \E k \in 0..(Len(s) - Len(p)) : SubSeq(s, k + 1, k + Len(p)) = p

\* the reference transform: one pass over the original text, in which an
\* occurrence of a token is replaced where it stands
RECURSIVE Reference(_, _, _)
Reference(s, name, replacement) ==
  IF s = <<>> THEN <<>>
  ELSE IF StartsWith(s, DS_INFLUXDB)
       THEN replacement \o Reference(Drop(s, Len(DS_INFLUXDB)), name, replacement)
  ELSE IF StartsWith(s, GethDashboard)
       THEN name \o Reference(Drop(s, Len(GethDashboard)), name, replacement)
  ELSE IF StartsWith(s, QC1Arp5Wk)
       THEN QC1Arp5Wk \o replacement
            \o Reference(Drop(s, Len(QC1Arp5Wk)), name, replacement)
  ELSE <<Head(s)>> \o Reference(Tail(s), name, replacement)

Expected(k) == Reference(TextOf(k), dashboard_list[k].name, dashboard_list[k].replacement)

\* ------------------------------------------------------------------ claims

\* C1 as stated: whenever the credential variable is unset or set to the
\* empty string, the run issues no request, touches no file, and a run that
\* has ended has a non-zero status.
C1_OriginalUnsetOrEmpty ==
  (Unset \/ (Present /\ environ[Key] = ""))
    => (NoIO /\ (Exited => exit.code # 0))

\* C1 amended: whenever the credential variable is unset, the run issues no
\* request and touches no file, and it ends, with a non-zero status.
C1_CredentialGate ==
  /\ [](Unset => (NoIO /\ (Exited => exit.code # 0)))
  /\ ((Unset /\ pc = "l21") ~> (Unset /\ Exited /\ exit.code # 0))

C1_Witness == Unset /\ Exited /\ exit.code = 1 /\ stdout = <<MsgCred>>

\* C2: whenever the credential is present and the destination is missing,
\* not a directory or not writable, the run issues no request and writes no
\* file, and it ends, with a non-zero status.
C2_DirectoryGate ==
  /\ []((Present /\ ~ DirOk) => (NoIO /\ (Exited => exit.code # 0)))
  /\ ((Present /\ ~ DirOk /\ pc = "l21") ~> (Exited /\ exit.code # 0))

C2_Witness ==
  /\ Present /\ dirstat.exists /\ dirstat.isdir /\ ~ dirstat.writable
  /\ Exited /\ exit.code = 1 /\ stdout = <<MsgDir>>

\* C3: for every descriptor and every built text, the text at the end of
\* the three replacements, and the text in the descriptor's file once it is
\* closed, is the reference transform of the downloaded text.
C3_Substitution ==
  /\ pc = "l37" => data = Reference(decoded_html, dashboard_list[i].name,
                                    dashboard_list[i].replacement)
  /\ \A k \in Indices :
       Count("l39", dashboard_list[k].filename) > 0 => files[NameOf(k)] = Expected(k)

\* the scenario of the spec: the three tokens, written for the first descriptor
C3_Witness ==
  /\ Exited
  /\ TextOf(1) = DS_INFLUXDB \o GethDashboard \o QC1Arp5Wk
  /\ files[NameOf(1)] = dashboard_list[1].replacement \o dashboard_list[1].name
                        \o QC1Arp5Wk \o dashboard_list[1].replacement

\* C4: in a run that writes both files, each file holds the transform of its
\* own downloaded text under its own name and replacement, nothing of the
\* other descriptor's name or replacement is in it, and the two files have
\* different names.
C4_Isolation ==
  /\ NameOf(1) # NameOf(2)
  /\ (Exited /\ exit.code = 0) =>
       /\ \A k \in Indices : files[NameOf(k)] = Expected(k)
       /\ ~ Contains(files[NameOf(1)], <<"O","p","t","i","m","i","s","m">>)
       /\ ~ Contains(files[NameOf(2)], <<"E","t","h","e","r","e","u","m">>)
       /\ ~ Contains(files[NameOf(2)], dashboard_list[1].replacement)

C4_Witness ==
  /\ Exited /\ exit.code = 0
  /\ TextOf(1) # TextOf(2)
  /\ Contains(files[NameOf(1)], dashboard_list[1].name)
  /\ Contains(files[NameOf(2)], dashboard_list[2].name)

\* C5: whatever a file held before, once its descriptor is written and
\* closed the file holds exactly the transformed text; and a successful run
\* after a successful run in the same environment leaves the files as the
\* first run left them.
C5_Overwrite ==
  /\ \A k \in Indices :
       Count("l39", dashboard_list[k].filename) > 0 => files[NameOf(k)] = Expected(k)
  /\ (Exited /\ exit.code = 0 /\ prev.ran /\ prev.exit.code = 0
        /\ prev.secret = GF_SECURITY_ADMIN_PASSWORD)
       => files = prev.files

C5_Witness ==
  /\ Exited /\ exit.code = 0 /\ prev.ran /\ prev.exit.code = 0
  /\ prev.secret = GF_SECURITY_ADMIN_PASSWORD
  /\ files = prev.files
  /\ \A k \in Indices : Len(files[NameOf(k)]) > Len(OldContent)

\* the descriptor at which the world of the run fails
FailsAt(k) == ResponseFails(server[k]) \/ disk[k] # "ok"

\* C6: when the fetch, the decoding or the write of descriptor k fails, the
\* run ends there through the exception, with a non-zero status: the
\* requests are those of descriptors 1..k, once each, the file of k is never
\* closed, nothing of a later descriptor is executed, and the files of the
\* descriptors before k hold their new content.
C6_AbortOnFirstFailure ==
  \A k \in Indices :
    (Exited /\ Present /\ DirOk /\ FailsAt(k)) =>
      /\ exit.kind \in { "URLError", "UnicodeDecodeError", "OSError" }
      /\ exit.code # 0
      /\ requests = [j \in 1..k |-> [method |-> "GET", url |-> dashboard_list[j].url,
                                     auth |-> ""]]
      /\ Count("l31", dashboard_list[k].filename) = 1
      /\ Count("l39", dashboard_list[k].filename) = 0
      /\ \A j \in Indices : j > k => \A e \in EventSet : e[2] # dashboard_list[j].filename
      /\ \A j \in Indices : j < k => files[NameOf(j)] = Expected(j)

C6_Witness ==
  /\ Exited /\ Present /\ DirOk /\ FailsAt(2) /\ disk[2] = "write"
  /\ files[NameOf(1)] = Expected(1)
  /\ files[NameOf(2)] = <<>>

\* C7: a run with the credential present, a usable destination and a world
\* without failures ends with status 0, having issued one request and
\* written one file per descriptor.
GoodRun == Present /\ DirOk /\ NumFaults(server, disk) = 0
C7_Done ==
  /\ Exited /\ exit.code = 0
  /\ Len(requests) = Len(dashboard_list)
  /\ \A k \in Indices :
       /\ Count("l31", dashboard_list[k].filename) = 1
       /\ Count("l37", dashboard_list[k].filename) = 1
       /\ Count("l39", dashboard_list[k].filename) = 1
       /\ requests[k].url = dashboard_list[k].url
C7_SuccessfulCompletion ==
  /\ [](GoodRun /\ Exited => C7_Done)
  /\ ((GoodRun /\ pc = "l21") ~> C7_Done)

C7_Witness == GoodRun /\ C7_Done /\ files[NameOf(2)] = Expected(2)

\* C8 as stated: a run whose credential is unset, or whose destination is
\* unusable, prints the message of that failure and nothing else and ends
\* through the exit the script asks for, with a non-zero status.
C8_GracefulExit ==
  /\ (Exited /\ Unset) =>
       (stdout = <<MsgCred>> /\ exit.kind = "SystemExit" /\ exit.code # 0)
  /\ (Exited /\ Present /\ ~ DirOk) =>
       (stdout = <<MsgDir>> /\ exit.kind = "SystemExit" /\ exit.code # 0)

\* the lines of a complete run, in the order of the list
Body(k) == [n \in 1..9 |->
             << <<"l31","l32","l33","l34","l35","l36","l37","l38","l39">>[n],
                dashboard_list[k].filename >> ]
RECURSIVE BodiesFrom(_)
BodiesFrom(k) == IF k > Len(dashboard_list) THEN <<>> ELSE Body(k) \o BodiesFrom(k + 1)
ProgramOrder == << <<"l22", "passed">>, <<"l26", "passed">> >> \o BodiesFrom(1)

\* C9: the lines a run has executed are a prefix of the program order, in
\* which both checks come first and all lines of a descriptor come before
\* the first line of the next; a response is open only while its own
\* descriptor is processed, and a request is issued only with the
\* credential present and the destination usable.
C9_Sequential ==
  /\ IsPrefix(events, ProgramOrder)
  /\ Len(requests) = Cardinality({ k \in 1..Len(events) : events[k][1] = "l31" })
  /\ requests # <<>> => (Present /\ DirOk)
  /\ f => /\ events # <<>>
          /\ events[Len(events)][2] = dashboard_list[Len(requests)].filename
          /\ events[Len(events)][1] # "l39"

C9_Witness == events = ProgramOrder /\ Exited

\* C10: a run and the run before it, both with the credential present, on
\* the same directory against the same server, issue the same requests,
\* write the same files with the same content and end with the same status;
\* no request carries the credential.
C10_NonInterference ==
  /\ \A k \in 1..Len(requests) :
       requests[k] = [method |-> "GET", url |-> dashboard_list[k].url, auth |-> ""]
  /\ (Exited /\ prev.ran /\ ~ prev.secret.isNone /\ Present) =>
       /\ requests = prev.requests
       /\ Written = prev.written
       /\ exit = prev.exit

C10_Witness ==
  /\ Exited /\ prev.ran /\ ~ prev.secret.isNone /\ Present
  /\ prev.secret.val = "hunter2" /\ environ[Key] = "s3cret"
  /\ Len(requests) = 2 /\ DOMAIN Written = FileNames

====
